---- MODULE Spec2Model ----
(***************************************************************************)
(* A model of capnproto-rust's buffered stream layer (src/src/io.rs), its  *)
(* message builders and options (src/src/message.rs) and its primitive     *)
(* list views (src/src/primitive_list.rs).                                 *)
(*                                                                         *)
(* Independent sub-systems share the module, each with its own             *)
(* specification:                                                          *)
(*   SpecIn           BufferedInputStreamWrapper over a byte source        *)
(*   FairSpecIn       the same, read_at_least's loop always going on       *)
(*   SpecSrc          read_at_least and ArrayInputStream used directly     *)
(*   SpecOut          BufferedOutputStreamWrapper over a sink that may fail*)
(*   SpecOutReliable  the same over a sink that never fails                *)
(*   SpecArr          ArrayOutputStream                                    *)
(*   SpecBuilder      MallocMessageBuilder, ScratchSpaceMallocMessageBuilder*)
(*   SpecList         primitive_list::Reader and Builder                    *)
(*   SpecOptions      ReaderOptions and BuilderOptions                      *)
(* A specification leaves the variables of the other sub-systems alone.    *)
(*                                                                         *)
(* A call that reaches read_at_least takes one step per iteration of its   *)
(* loop; every other call is one step.  A panic ends the use of the stream *)
(* it happens in.                                                          *)
(*                                                                         *)
(* Bytes are natural numbers.  The byte at 0-based offset i of the source  *)
(* is i + 1, and the j-th byte a caller ever hands to an output stream is  *)
(* j, so a lost, duplicated or reordered byte is always visible.           *)
(***************************************************************************)
EXTENDS Integers, Sequences, FiniteSets, TLC

\* ------------------------------------------------------------------ bounds

\* The capacity of the internal buffers.  The code allocates 8192 bytes
\* (io.rs:55, io.rs:182); the model is explored at a scaled capacity.
BufLen == 3
\* The longest source.
MaxSrcLen == 6
\* The largest read / skip / read_at_least request.
MaxReq == 5
\* The largest write request.
MaxWrite == 4
\* The number of bytes callers hand to an output stream in one behaviour.
MaxOutBytes == 8
\* The number of sink operations that may fail in one behaviour.
MaxSinkFails == 1
\* The longest backing array of an ArrayOutputStream.
MaxArrLen == 3
\* The largest first segment of a message builder, in words.
MaxSegWords == 3
\* The largest object a root operation allocates, in words.
MaxObjWords == 2
\* The number of allocations of a message builder in one behaviour.
MaxAllocs == 4
\* The longest primitive list.
MaxListLen == 3
\* The largest element value of a primitive list.
MaxValue == 1
\* The largest value given to a setter of the options, besides the defaults.
MaxOptValue == 1

\* A byte of memory that was never written (Vec::with_capacity + set_len).
Uninit == -1

\* ------------------------------------------------------------- variables

VARIABLES
    \* --- the byte source (R : Reader, or the slice of an ArrayInputStream)
    src,        \* the whole content of the source
    srcKind,    \* "array": ArrayInputStream; "stream": any other Reader
    srcPos,     \* bytes taken from the source so far
    \* --- BufferedInputStreamWrapper
    inBuf,      \* buf
    inPos,      \* pos
    inCap,      \* cap
    \* --- control
    pc,         \* "idle" | "ral" (inside read_at_least) | "panicked"
    call,       \* the operation in flight
    ral,        \* read_at_least's locals
    res,        \* the result of the last completed operation
    \* --- history
    delivered,  \* bytes returned by successful BufferedInputStreamWrapper reads
    skipped,    \* bytes skipped by successful BufferedInputStreamWrapper skips
    failed,     \* some operation returned Err
    before,     \* history: pos, cap and the buffer at the entry of the call in
                \* progress, kept when that call returns Err
    \* --- BufferedOutputStreamWrapper and its sink (W : Writer)
    outBuf,     \* buf
    outPos,     \* pos
    sink,       \* the bytes the sink has received
    sinkFails,  \* the sink operations that may still fail
    outSt,      \* "ok" | "panicked"
    outRes,     \* the result of the last completed operation
    accepted,   \* history: the bytes of the calls that returned Ok, in order
    outNext,    \* history: the bytes handed to the stream so far
    \* --- ArrayOutputStream
    arr,        \* array
    arrFillPos, \* fill_pos
    arrSt,      \* "ok" | "panicked"
    arrRes,     \* the result of the last completed operation
    arrNext,    \* history: the bytes handed to the stream so far
    \* --- MessageBuilder (MallocMessageBuilder, ScratchSpaceMallocMessageBuilder)
    bKind,      \* "malloc" | "scratch"
    bStrategy,  \* options.allocation_strategy
    seg0Mem,    \* the words of segment 0 (the scratch region, when "scratch")
    seg0Size,   \* arena.segment0.current_size()
    moreSegs,   \* the later segments: their capacity and size
    bSt,        \* "ok" | "panicked" | "dropped"
    bRes,       \* the result of the last completed operation
    allocLog,   \* history: the allocations of the arena, in order
    scratchWasZero, \* history: the scratch region was all zero at construction
    \* --- primitive_list::Reader / Builder over one list
    plLen,      \* reader.len() / builder.len(): 0 over an absent pointer
    plMem,      \* the element slots from the list's start: the list's own,
                \* then the memory that follows it
    plSt,       \* "ok" | "panicked" | "faulted"
    plRes,      \* the result of the last completed operation
    \* --- ReaderOptions / BuilderOptions
    ropt,       \* a ReaderOptions value
    bopt,       \* a BuilderOptions value
    optLast     \* history: per setter, the value of its most recent call

inVars == <<src, srcKind, srcPos, inBuf, inPos, inCap, pc, call, ral, res,
            delivered, skipped, failed, before>>

outVars == <<outBuf, outPos, sink, sinkFails, outSt, outRes, accepted, outNext>>

arrVars == <<arr, arrFillPos, arrSt, arrRes, arrNext>>

bVars == <<bKind, bStrategy, seg0Mem, seg0Size, moreSegs, bSt, bRes, allocLog,
           scratchWasZero>>

plVars == <<plLen, plMem, plSt, plRes>>

optVars == <<ropt, bopt, optLast>>

vars == <<inVars, outVars, arrVars, bVars, plVars, optVars>>

\* What the actions of one sub-system leave alone.
notIn == <<outVars, arrVars, bVars, plVars, optVars>>
notOut == <<inVars, arrVars, bVars, plVars, optVars>>
notArr == <<inVars, outVars, bVars, plVars, optVars>>
notB == <<inVars, outVars, arrVars, plVars, optVars>>
notPl == <<inVars, outVars, arrVars, bVars, optVars>>
notOpt == <<inVars, outVars, arrVars, bVars, plVars>>

\* ---------------------------------------------------------------- helpers

Min(a, b) == IF a <= b THEN a ELSE b

Fill(n, v) == [i \in 1..n |-> v]

\* copy_memory(dst[at ..], bytes): dst with bytes written from 0-based offset at.
CopyInto(dst, at, bytes) ==
    [i \in 1..Len(dst) |->
        IF i > at /\ i <= at + Len(bytes) THEN bytes[i - at] ELSE dst[i]]

\* The slice s[from .. to) with 0-based bounds.
Slice(s, from, to) == SubSeq(s, from + 1, to)

SourceBytes(n) == [i \in 1..n |-> i]

NoCall == [op |-> "none", k |-> 0, dst |-> <<>>, ffb |-> 0, nb |-> 0,
           path |-> "none", off |-> 0, target |-> "none", lpos |-> 0]
\* read_at_least's locals: pos, min_bytes, buf_len, and the parity of the
\* number of reads of the source the call has made.
NoRal == [pos |-> 0, min |-> 0, len |-> 0, iter |-> 0]
NoBefore == [pos |-> 0, cap |-> 0, buf |-> <<>>]
NoRes == [op |-> "none", k |-> 0, status |-> "none", count |-> 0,
          data |-> <<>>, path |-> "none", off |-> 0, avail |-> 0, lpos |-> 0]

\* ------------------------------------------------------------- the source

SrcRemaining == Len(src) - srcPos

\* ArrayInputStream::read: n = min(dst.len(), array.len()), always Ok(n).
ArrayInputStreamRead(len) ==
    {[ok |-> TRUE, n |-> Min(len, SrcRemaining)]}

\* Any other Reader: a read into a non-empty buffer returns between one byte
\* and all it has room and data for, and Err(EndOfFile) once the data is
\* exhausted.
StreamRead(len) ==
    IF len = 0 THEN {[ok |-> TRUE, n |-> 0]}
    ELSE IF SrcRemaining = 0 THEN {[ok |-> FALSE, n |-> 0]}
    ELSE {[ok |-> TRUE, n |-> m] : m \in 1..Min(len, SrcRemaining)}

\* reader.read(buf1) with buf1.len() = len: the possible outcomes.
SourceRead(len) ==
    IF srcKind = "array" THEN ArrayInputStreamRead(len) ELSE StreamRead(len)

\* ---------------------------------------------------------- read_at_least

ReadAtLeastContinueOffByOne(pos, min_bytes) == pos + 1 < min_bytes

\* while pos < min_bytes
ReadAtLeastContinue(pos, min_bytes) == pos < min_bytes

\* let buf1 = &mut buf[pos .. buf_len]: the length of the unfilled tail.
ReadAtLeastTail(pos, buf_len) == buf_len - pos

InitIn ==
    /\ \E n \in 0..MaxSrcLen : src = SourceBytes(n)
    /\ srcKind \in {"array", "stream"}
    /\ srcPos = 0
    /\ inBuf = Fill(BufLen, Uninit)
    /\ inPos = 0
    /\ inCap = 0
    /\ pc = "idle"
    /\ call = NoCall
    /\ ral = NoRal
    /\ res = NoRes
    /\ delivered = 0
    /\ skipped = 0
    /\ failed = FALSE
    /\ before = NoBefore

\* ------------------------------------------- BufferedInputStreamWrapper

\* let available = self.cap - self.pos
Available == inCap - inPos

ReadFitsBufferIgnoringPos(num_bytes) == num_bytes <= inCap

\* if num_bytes <= self.cap - self.pos  (read is served from the buffer)
ReadFitsBuffer(num_bytes) == num_bytes <= Available

\* if num_bytes <= self.buf.len()  (the remainder fits one refill)
ReadFitsRefill(num_bytes) == num_bytes <= BufLen

ReadRefillCountOfRefillOnly(from_first_buffer, num_bytes) == num_bytes

\* return Ok(from_first_buffer + num_bytes)
ReadRefillCount(from_first_buffer, num_bytes) == from_first_buffer + num_bytes

\* return Ok(from_first_buffer + try!(read_at_least(...)))
ReadBypassCount(from_first_buffer, n) == from_first_buffer + n

\* if bytes <= available  (skip is served from the buffer)
SkipFitsBuffer(bytes) == bytes <= Available

SkipFitsRefillStrict(bytes) == bytes < BufLen

\* if bytes <= self.buf.len()  (the excess fits one refill)
SkipFitsRefill(bytes) == bytes <= BufLen

SkipRefillPosWithoutExcess(bytes) == bytes + Available

\* self.pos = bytes  (after the refill of skip)
SkipRefillPos(bytes) == bytes

RefillCapWholeBuffer(n) == BufLen

\* self.cap = n  (after a refill)
RefillCap(n) == n

ReadBufferEmptyByCap == inCap = 0

\* if self.cap - self.pos == 0  (get_read_buffer refills)
ReadBufferEmpty == Available = 0

\* The record of a completed operation: its argument k, its status ("ok",
\* "err", "panic"), the count and the bytes it returned, the path it took,
\* and what held when it was called: off, the bytes consumed so far (of the
\* source, for a direct use of it); avail, the bytes available (buffered, or
\* left in the array); lpos, the source position of the first unread byte.
Result(op, k, status, count, data, path, off, avail, lpos) ==
    [op |-> op, k |-> k, status |-> status, count |-> count, data |-> data,
     path |-> path, off |-> off, avail |-> avail, lpos |-> lpos]

Consumed == delivered + skipped

\* The source position of the first byte the wrapper has not yet handed out.
LogicalPos == srcPos - Available

\* Reader::read(dst) with dst.len() = k, up to its call of read_at_least.
Read(k) ==
    /\ pc = "idle"
    /\ UNCHANGED notIn
    /\ UNCHANGED <<src, srcKind, srcPos, inBuf, skipped, failed>>
    /\ IF ReadFitsBuffer(k)
       THEN \* Serve from the current buffer.
            /\ before' = NoBefore
            /\ inPos' = inPos + k
            /\ res' = Result("read", k, "ok", k, Slice(inBuf, inPos, inPos + k),
                             "buffer", Consumed, Available, LogicalPos)
            /\ delivered' = delivered + k
            /\ UNCHANGED <<inCap, pc, call, ral>>
       ELSE LET ffb == Available
                dst == CopyInto(Fill(k, Uninit), 0, Slice(inBuf, inPos, inCap))
                nb  == k - ffb
            IN  /\ pc' = "ral"
                /\ before' = [pos |-> inPos, cap |-> inCap, buf |-> inBuf]
                /\ UNCHANGED <<res, delivered>>
                /\ IF ReadFitsRefill(nb)
                   THEN \* Read the next buffer-full.
                        /\ call' = [op |-> "read", k |-> k, dst |-> dst,
                                    ffb |-> ffb, nb |-> nb, path |-> "refill",
                                    off |-> Consumed, target |-> "buf", lpos |-> LogicalPos]
                        /\ ral' = [pos |-> 0, min |-> nb, len |-> BufLen, iter |-> 0]
                        /\ UNCHANGED <<inPos, inCap>>
                   ELSE \* Forward large read to the underlying stream.
                        /\ inPos' = 0
                        /\ inCap' = 0
                        /\ call' = [op |-> "read", k |-> k, dst |-> dst,
                                    ffb |-> ffb, nb |-> nb, path |-> "bypass",
                                    off |-> Consumed, target |-> "dst", lpos |-> LogicalPos]
                        /\ ral' = [pos |-> 0, min |-> nb, len |-> nb, iter |-> 0]

\* BufferedInputStream::skip(bytes), up to its call of read_at_least.
Skip(k) ==
    /\ pc = "idle"
    /\ UNCHANGED notIn
    /\ UNCHANGED <<src, srcKind, srcPos, inBuf, inCap, delivered, failed>>
    /\ IF SkipFitsBuffer(k)
       THEN /\ before' = NoBefore
            /\ inPos' = inPos + k
            /\ res' = Result("skip", k, "ok", k, <<>>, "buffer", Consumed, Available,
                             LogicalPos)
            /\ skipped' = skipped + k
            /\ UNCHANGED <<pc, call, ral>>
       ELSE LET bytes == k - Available
            IN  /\ UNCHANGED <<inPos, skipped>>
                /\ IF SkipFitsRefill(bytes)
                   THEN \* Read the next buffer-full.
                        /\ pc' = "ral"
                        /\ before' = [pos |-> inPos, cap |-> inCap, buf |-> inBuf]
                        /\ call' = [op |-> "skip", k |-> k, dst |-> <<>>,
                                    ffb |-> Available, nb |-> bytes,
                                    path |-> "refill", off |-> Consumed,
                                    target |-> "buf", lpos |-> LogicalPos]
                        /\ ral' = [pos |-> 0, min |-> bytes, len |-> BufLen, iter |-> 0]
                        /\ UNCHANGED res
                   ELSE \* panic!("TODO")
                        /\ pc' = "panicked"
                        /\ before' = NoBefore
                        /\ res' = Result("skip", k, "panic", 0, <<>>, "forward",
                                         Consumed, Available, LogicalPos)
                        /\ UNCHANGED <<call, ral>>

\* BufferedInputStream::get_read_buffer(), up to its call of read_at_least.
GetReadBuffer ==
    /\ pc = "idle"
    /\ UNCHANGED notIn
    /\ UNCHANGED <<src, srcKind, srcPos, inBuf, inPos, inCap, delivered, skipped, failed>>
    /\ IF ReadBufferEmpty
       THEN /\ pc' = "ral"
            /\ before' = [pos |-> inPos, cap |-> inCap, buf |-> inBuf]
            /\ call' = [op |-> "grb", k |-> 0, dst |-> <<>>, ffb |-> Available, nb |-> 1,
                        path |-> "refill", off |-> Consumed, target |-> "buf", lpos |-> LogicalPos]
            /\ ral' = [pos |-> 0, min |-> 1, len |-> BufLen, iter |-> 0]
            /\ UNCHANGED res
       ELSE /\ res' = Result("grb", 0, "ok", Available, Slice(inBuf, inPos, inCap),
                             "buffer", Consumed, Available, LogicalPos)
            /\ before' = NoBefore
            /\ UNCHANGED <<pc, call, ral>>

\* What the caller of read_at_least does with Ok(n): the rest of read, skip
\* or get_read_buffer.  buf and dst are the memory read_at_least has filled.
Return(n, buf, dst) ==
    /\ pc' = "idle"
    /\ call' = NoCall
    /\ ral' = NoRal
    /\ inBuf' = buf
    /\ before' = NoBefore
    /\ UNCHANGED failed
    /\ CASE call.op = "read" /\ call.path = "refill" ->
              LET out == CopyInto(dst, call.ffb, Slice(buf, 0, call.nb))
                  cnt == ReadRefillCount(call.ffb, call.nb)
              IN  /\ inCap' = RefillCap(n)
                  /\ inPos' = call.nb
                  /\ res' = Result("read", call.k, "ok", cnt, out, "refill",
                                   call.off, call.ffb, call.lpos)
                  /\ delivered' = delivered + cnt
                  /\ UNCHANGED skipped
         [] call.op = "read" /\ call.path = "bypass" ->
              LET cnt == ReadBypassCount(call.ffb, n)
              IN  /\ res' = Result("read", call.k, "ok", cnt, dst, "bypass",
                                   call.off, call.ffb, call.lpos)
                  /\ delivered' = delivered + cnt
                  /\ UNCHANGED <<inPos, inCap, skipped>>
         [] call.op = "skip" ->
              /\ inPos' = SkipRefillPos(call.nb)
              /\ inCap' = RefillCap(n)
              /\ res' = Result("skip", call.k, "ok", call.k, <<>>, "refill",
                               call.off, call.ffb, call.lpos)
              /\ skipped' = skipped + call.k
              /\ UNCHANGED delivered
         [] call.op = "grb" ->
              /\ inCap' = RefillCap(n)
              /\ inPos' = 0
              /\ res' = Result("grb", 0, "ok", n, Slice(buf, 0, n), "refill",
                               call.off, call.ffb, call.lpos)
              /\ UNCHANGED <<delivered, skipped>>
         [] call.op = "ral" ->
              /\ res' = Result("ral", call.k, "ok", n, dst, "direct", call.off,
                               call.ffb, call.lpos)
              /\ UNCHANGED <<inPos, inCap, delivered, skipped>>

\* try!: the caller of read_at_least returns the Err as it is.
Fail(buf, dst) ==
    /\ pc' = "idle"
    /\ call' = NoCall
    /\ ral' = NoRal
    /\ inBuf' = buf
    /\ failed' = TRUE
    /\ UNCHANGED before
    /\ res' = Result(call.op, call.k, "err", 0, dst, call.path, call.off, call.ffb, call.lpos)
    /\ UNCHANGED <<inPos, inCap, delivered, skipped>>

\* One step of read_at_least's loop: the loop test and, when it passes, a
\* read of the source into the unfilled tail of the buffer; when it fails,
\* the return to the caller and the caller's continuation.
RalStep ==
    /\ pc = "ral"
    /\ UNCHANGED notIn
    /\ UNCHANGED <<src, srcKind>>
    /\ IF ~ReadAtLeastContinue(ral.pos, ral.min)
       THEN /\ Return(ral.pos, inBuf, call.dst)
            /\ UNCHANGED srcPos
       ELSE \E r \in SourceRead(ReadAtLeastTail(ral.pos, ral.len)) :
              LET bytes == Slice(src, srcPos, srcPos + r.n)
                  toBuf == call.target = "buf"
                  at    == IF toBuf THEN ral.pos ELSE call.ffb + ral.pos
              IN  IF ~r.ok
                  THEN /\ Fail(inBuf, call.dst)
                       /\ UNCHANGED srcPos
                  ELSE /\ srcPos' = srcPos + r.n
                       /\ ral' = [ral EXCEPT !.pos = ral.pos + r.n,
                                             !.iter = 1 - ral.iter]
                       /\ inBuf' = IF toBuf THEN CopyInto(inBuf, at, bytes)
                                   ELSE inBuf
                       /\ call' = IF toBuf THEN call
                                  ELSE [call EXCEPT !.dst = CopyInto(call.dst, at, bytes)]
                       /\ UNCHANGED <<pc, res, inPos, inCap, delivered,
                                      skipped, failed, before>>

\* ------------------------------------- direct use of the source

\* read_at_least(reader, buf, min_bytes) with buf.len() = len, called on the
\* source itself: let mut pos = 0, then the loop.
ReadAtLeast(len, min_bytes) ==
    /\ pc = "idle"
    /\ UNCHANGED notIn
    /\ pc' = "ral"
    /\ call' = [op |-> "ral", k |-> min_bytes, dst |-> Fill(len, Uninit),
                ffb |-> 0, nb |-> min_bytes, path |-> "direct", off |-> srcPos,
                target |-> "dst", lpos |-> srcPos]
    /\ ral' = [pos |-> 0, min |-> min_bytes, len |-> len, iter |-> 0]
    /\ UNCHANGED <<src, srcKind, srcPos, inBuf, inPos, inCap, res, delivered,
                   skipped, failed, before>>

\* ArrayInputStream::read(dst) with dst.len() = k.
ArrayRead(k) ==
    /\ pc = "idle"
    /\ UNCHANGED notIn
    /\ srcKind = "array"
    /\ \E r \in ArrayInputStreamRead(k) :
         /\ srcPos' = srcPos + r.n
         /\ res' = Result("aread", k, IF r.ok THEN "ok" ELSE "err", r.n,
                          CopyInto(Fill(k, Uninit), 0, Slice(src, srcPos, srcPos + r.n)),
                          "array", srcPos, SrcRemaining, srcPos)
    /\ UNCHANGED <<src, srcKind, inBuf, inPos, inCap, pc, call, ral, delivered,
                   skipped, failed, before>>

\* assert!(self.array.len() >= bytes, ...)
ArraySkipInBounds(bytes) == SrcRemaining >= bytes

\* ArrayInputStream::skip(bytes).
ArraySkip(k) ==
    /\ pc = "idle"
    /\ UNCHANGED notIn
    /\ srcKind = "array"
    /\ IF ArraySkipInBounds(k)
       THEN /\ srcPos' = srcPos + k
            /\ res' = Result("askip", k, "ok", k, <<>>, "array", srcPos,
                             SrcRemaining, srcPos)
            /\ UNCHANGED pc
       ELSE /\ pc' = "panicked"
            /\ res' = Result("askip", k, "panic", 0, <<>>, "array", srcPos,
                             SrcRemaining, srcPos)
            /\ UNCHANGED srcPos
    /\ UNCHANGED <<src, srcKind, inBuf, inPos, inCap, call, ral, delivered,
                   skipped, failed, before>>

\* ArrayInputStream::get_read_buffer(): the whole remaining slice.
ArrayGetReadBuffer ==
    /\ pc = "idle"
    /\ UNCHANGED notIn
    /\ srcKind = "array"
    /\ res' = Result("agrb", 0, "ok", SrcRemaining, Slice(src, srcPos, Len(src)),
                     "array", srcPos, SrcRemaining, srcPos)
    /\ UNCHANGED <<src, srcKind, srcPos, inBuf, inPos, inCap, pc, call, ral,
                   delivered, skipped, failed, before>>

NextSrc ==
    \/ \E len \in 0..MaxReq, m \in 0..MaxReq : ReadAtLeast(len, m)
    \/ \E k \in 0..MaxReq : ArrayRead(k)
    \/ \E k \in 0..MaxReq : ArraySkip(k)
    \/ ArrayGetReadBuffer
    \/ RalStep

NextIn ==
    \/ \E k \in 0..MaxReq : Read(k)
    \/ \E k \in 0..MaxReq : Skip(k)
    \/ GetReadBuffer
    \/ RalStep


\* ------------------------------------------ BufferedOutputStreamWrapper

\* The bytes a caller hands over in a call of the given size.
NewBytes(next, size) == [i \in 1..size |-> next + i]

\* inner.write_all(bytes): Ok with every byte written or, while the sink may
\* still fail, Err with an unknown part of them written.
SinkWriteAll(bytes) ==
    {[ok |-> TRUE, got |-> bytes]}
    \cup (IF sinkFails = 0 THEN {}
          ELSE {[ok |-> FALSE, got |-> Slice(bytes, 0, n)] : n \in 0..Len(bytes)})

\* inner.flush()
SinkFlush == {TRUE} \cup (IF sinkFails = 0 THEN {} ELSE {FALSE})

\* let available = self.buf.len() - self.pos
WriteAvailable == BufLen - outPos

WriteFitsBufferStrict(size) == size < WriteAvailable

\* if size <= available
WriteFitsBuffer(size) == size <= WriteAvailable

\* else if size <= self.buf.len()
WriteFitsOneBuffer(size) == size <= BufLen

Outcome(status, buf, pos, snk) ==
    [status |-> status, buf |-> buf, pos |-> pos, sink |-> snk]

\* Writer::write_all(buf) of the wrapper: every outcome it can have.  With
\* pos beyond the buffer the subtraction overflows: it panics where overflow
\* is checked, and where it wraps the slice [self.pos ..] panics.
WriteAllOutcomes(data) ==
    LET size == Len(data)
        available == WriteAvailable
    IN  IF outPos > BufLen
        THEN {Outcome("panic", outBuf, outPos, sink)}
        ELSE IF WriteFitsBuffer(size)
        THEN {Outcome("ok", CopyInto(outBuf, outPos, data), outPos + size, sink)}
        ELSE IF WriteFitsOneBuffer(size)
        THEN \* Too much for this buffer, but not a full buffer's worth.
             LET full == CopyInto(outBuf, outPos, Slice(data, 0, available))
             IN  {IF w.ok
                  THEN Outcome("ok", CopyInto(full, 0, Slice(data, available, size)),
                               size - available, sink \o w.got)
                  ELSE Outcome("err", full, outPos, sink \o w.got)
                  : w \in SinkWriteAll(full)}
        ELSE \* Write directly to avoid a copy.
             UNION {IF ~w1.ok
                    THEN {Outcome("err", outBuf, outPos, sink \o w1.got)}
                    ELSE {Outcome(IF w2.ok THEN "ok" ELSE "err", outBuf, 0,
                                  (sink \o w1.got) \o w2.got)
                          : w2 \in SinkWriteAll(data)}
                    : w1 \in SinkWriteAll(Slice(outBuf, 0, outPos))}

\* The state after a call of the wrapper with the given outcome.
OutApply(op, size, ptr, data, o) ==
    /\ outBuf' = o.buf
    /\ outPos' = o.pos
    /\ sink' = o.sink
    /\ sinkFails' = IF o.status = "err" THEN sinkFails - 1 ELSE sinkFails
    /\ outSt' = IF o.status = "panic" THEN "panicked" ELSE "ok"
    /\ accepted' = IF o.status = "ok" THEN accepted \o data ELSE accepted
    /\ outNext' = outNext + Len(data)
    /\ outRes' = [op |-> op, size |-> size, ptr |-> ptr, status |-> o.status,
                  pos |-> outPos, sink |-> sink]

\* Writer::write_all(buf) with buf.len() = size.
WriteAll(size) ==
    /\ outSt = "ok"
    /\ UNCHANGED notOut
    /\ outNext + size <= MaxOutBytes
    /\ LET data == NewBytes(outNext, size)
       IN  \E o \in WriteAllOutcomes(data) : OutApply("write_all", size, "none", data, o)

\* Writer::flush().  With pos beyond the buffer the slice [0 .. self.pos] panics.
Flush ==
    /\ outSt = "ok"
    /\ UNCHANGED notOut
    /\ \E o \in
         IF outPos > BufLen
         THEN {Outcome("panic", outBuf, outPos, sink)}
         ELSE IF outPos > 0
         THEN UNION {IF ~w.ok
                     THEN {Outcome("err", outBuf, outPos, sink \o w.got)}
                     ELSE {Outcome(IF f THEN "ok" ELSE "err", outBuf, 0, sink \o w.got)
                           : f \in SinkFlush}
                     : w \in SinkWriteAll(Slice(outBuf, 0, outPos))}
         ELSE {Outcome(IF f THEN "ok" ELSE "err", outBuf, outPos, sink) : f \in SinkFlush} :
         OutApply("flush", 0, "none", <<>>, o)

\* BufferedOutputStream::get_write_buffer(): the free region [pos, len) is
\* lent; nothing changes.
GetWriteBuffer ==
    /\ outSt = "ok"
    /\ UNCHANGED notOut
    /\ outPos <= BufLen
    /\ outRes' = [op |-> "get_write_buffer", size |-> WriteAvailable,
                  ptr |-> "lent", status |-> "ok", pos |-> outPos, sink |-> sink]
    /\ UNCHANGED <<outBuf, outPos, sink, sinkFails, outSt, accepted, outNext>>

\* self.pos += size  (the easy case of write_ptr)
WritePtrEasyPos(size) == outPos + size

\* BufferedOutputStream::write_ptr(ptr, size).  ptr is either the address
\* get_write_buffer has just lent ("lent": the caller has written its size
\* bytes there, as far as the buffer reaches) or an address outside the
\* buffer ("ext").  The size is whatever the caller passes: the easy case
\* does not compare it with the free space.  A further commit from a cursor
\* that is already beyond the buffer is not explored.
WritePtr(ptr, size) ==
    /\ outSt = "ok"
    /\ UNCHANGED notOut
    /\ outNext + size <= MaxOutBytes
    /\ LET data == NewBytes(outNext, size)
       IN  IF ptr = "lent"
           THEN /\ outPos <= BufLen
                /\ OutApply("write_ptr", size, ptr, data,
                            Outcome("ok",
                                    CopyInto(outBuf, outPos,
                                             Slice(data, 0, Min(size, WriteAvailable))),
                                    WritePtrEasyPos(size), sink))
           ELSE \E o \in WriteAllOutcomes(data) : OutApply("write_ptr", size, ptr, data, o)

InitOut ==
    /\ outBuf = Fill(BufLen, Uninit)
    /\ outPos = 0
    /\ sink = <<>>
    /\ sinkFails \in 0..MaxSinkFails
    /\ outSt = "ok"
    /\ outRes = [op |-> "none", size |-> 0, ptr |-> "none", status |-> "none",
                 pos |-> 0, sink |-> <<>>]
    /\ accepted = <<>>
    /\ outNext = 0

NextOut ==
    \/ \E size \in 0..MaxWrite : WriteAll(size)
    \/ Flush
    \/ GetWriteBuffer
    \/ \E ptr \in {"lent", "ext"}, size \in 0..MaxWrite : WritePtr(ptr, size)

\* ----------------------------------------------------- ArrayOutputStream

ArrayWriteFitsIgnoringFill(size) == size <= Len(arr)

\* assert!(buf.len() <= self.array.len() - self.fill_pos, ...)
ArrayWriteFits(size) == size <= Len(arr) - arrFillPos

\* Writer::write_all(buf) of the array stream: every outcome it can have.
\* With fill_pos beyond the array the subtraction overflows: it panics where
\* overflow is checked; where it wraps, the assertion passes and the bytes are
\* copied past the end of the array.
ArrayWriteAllOutcomes(data) ==
    LET size == Len(data)
        done == [status |-> "ok", arr |-> CopyInto(arr, arrFillPos, data),
                 fill |-> arrFillPos + size]
        dies == [status |-> "panic", arr |-> arr, fill |-> arrFillPos]
    IN  IF arrFillPos > Len(arr) THEN {dies, done}
        ELSE IF ArrayWriteFits(size) THEN {done}
        ELSE {dies}

ArrApply(op, size, ptr, o) ==
    /\ arr' = o.arr
    /\ arrFillPos' = o.fill
    /\ arrSt' = IF o.status = "panic" THEN "panicked" ELSE "ok"
    /\ arrNext' = arrNext + size
    /\ arrRes' = [op |-> op, size |-> size, ptr |-> ptr, status |-> o.status,
                  fill |-> arrFillPos, arr |-> arr]

\* Writer::write_all(buf) with buf.len() = size.
ArrayWriteAll(size) ==
    /\ arrSt = "ok"
    /\ UNCHANGED notArr
    /\ arrNext + size <= MaxOutBytes
    /\ \E o \in ArrayWriteAllOutcomes(NewBytes(arrNext, size)) :
         ArrApply("write_all", size, "none", o)

\* BufferedOutputStream::get_write_buffer() of the array stream.
ArrayGetWriteBuffer ==
    /\ arrSt = "ok"
    /\ UNCHANGED notArr
    /\ arrFillPos <= Len(arr)
    /\ arrRes' = [op |-> "get_write_buffer", size |-> Len(arr) - arrFillPos,
                  ptr |-> "lent", status |-> "ok", fill |-> arrFillPos, arr |-> arr]
    /\ UNCHANGED <<arr, arrFillPos, arrSt, arrNext>>

\* self.fill_pos += size  (the easy case of write_ptr)
ArrayWritePtrEasyPos(size) == arrFillPos + size

\* BufferedOutputStream::write_ptr(ptr, size) of the array stream.
ArrayWritePtr(ptr, size) ==
    /\ arrSt = "ok"
    /\ UNCHANGED notArr
    /\ arrNext + size <= MaxOutBytes
    /\ LET data == NewBytes(arrNext, size)
       IN  IF ptr = "lent"
           THEN /\ arrFillPos <= Len(arr)
                /\ ArrApply("write_ptr", size, ptr,
                            [status |-> "ok",
                             arr |-> CopyInto(arr, arrFillPos,
                                              Slice(data, 0, Min(size, Len(arr) - arrFillPos))),
                             fill |-> ArrayWritePtrEasyPos(size)])
           ELSE \E o \in ArrayWriteAllOutcomes(data) : ArrApply("write_ptr", size, ptr, o)

InitArr ==
    /\ \E n \in 0..MaxArrLen : arr = Fill(n, 0)
    /\ arrFillPos = 0
    /\ arrSt = "ok"
    /\ arrRes = [op |-> "none", size |-> 0, ptr |-> "none", status |-> "none",
                 fill |-> 0, arr |-> <<>>]
    /\ arrNext = 0

NextArr ==
    \/ \E size \in 0..MaxWrite : ArrayWriteAll(size)
    \/ ArrayGetWriteBuffer
    \/ \E ptr \in {"lent", "ext"}, size \in 0..MaxWrite : ArrayWritePtr(ptr, size)

\* --------------------------------------------------------- MessageBuilder
\* private::arena and private::layout are not part of the sources: a
\* segment, the arena's allocation and what init_as / get_as / set_as
\* allocate are as the specification describes them.

\* WORDS_PER_POINTER
WordsPerPointer == 1

\* SegmentBuilder::allocate(amount) on segment 0: the location, or no room.
Seg0HasRoom(amount) == amount <= Len(seg0Mem) - seg0Size

Sum(caps) == IF caps = <<>> THEN 0 ELSE
    LET f[i \in 0..Len(caps)] == IF i = 0 THEN 0 ELSE f[i - 1] + caps[i].cap
    IN  f[Len(caps)]

\* The capacity of a segment the arena appends for an allocation of amount
\* words: FixedSize, the first segment's; GrowHeuristically, the sum of all
\* segments so far; and never less than the allocation.
NewSegmentWords(amount) ==
    LET policy == IF bStrategy = "FixedSize" THEN Len(seg0Mem)
                  ELSE Len(seg0Mem) + Sum(moreSegs)
    IN  IF amount > policy THEN amount ELSE policy

\* BuilderArena::allocate(amount): in segment 0 when it has room, else in the
\* last segment when it has room, else in a new segment.  The result is
\* <<segment id, offset, segment 0's size, the later segments>>.
ArenaAllocate(size0, segs, amount) ==
    IF amount <= Len(seg0Mem) - size0
    THEN [seg |-> 0, off |-> size0, size0 |-> size0 + amount, segs |-> segs]
    ELSE IF segs # <<>> /\ amount <= segs[Len(segs)].cap - segs[Len(segs)].size
    THEN [seg |-> Len(segs), off |-> segs[Len(segs)].size, size0 |-> size0,
          segs |-> [segs EXCEPT ![Len(segs)].size = @ + amount]]
    ELSE [seg |-> Len(segs) + 1, off |-> 0, size0 |-> size0,
          segs |-> Append(segs, [cap |-> NewSegmentWords(amount), size |-> amount])]

\* The words [from, from + n) of segment 0 written with non-zero data.
WriteWords(mem, from, n) ==
    [i \in 1..Len(mem) |-> IF i > from /\ i <= from + n THEN 1 ELSE mem[i]]

RootAlwaysAllocated == TRUE

\* if self.arena().segment0.current_size() == 0
RootNeedsAllocation == seg0Size = 0

\* assert!(location == self.arena().segment0.get_ptr_unchecked(0), ...)
RootLocationIsStart(off) == off = 0

\* MessageBuilder::get_root_internal: the outcome, as
\* [status, off (of the root pointer in segment 0), size0, allocated].
GetRootInternal ==
    IF RootNeedsAllocation
    THEN IF ~Seg0HasRoom(WordsPerPointer)
         THEN \* panic!("could not allocate root pointer")
              [status |-> "panic", off |-> 0, size0 |-> seg0Size, allocated |-> 0]
         ELSE IF ~RootLocationIsStart(seg0Size)
         THEN [status |-> "panic", off |-> seg0Size,
               size0 |-> seg0Size + WordsPerPointer, allocated |-> WordsPerPointer]
         ELSE [status |-> "ok", off |-> seg0Size,
               size0 |-> seg0Size + WordsPerPointer, allocated |-> WordsPerPointer]
    ELSE [status |-> "ok", off |-> 0, size0 |-> seg0Size, allocated |-> 0]

\* init_root / get_root / set_root (and get_root_internal itself, with
\* nothing after it): get_root_internal, then init_as / get_as / set_as,
\* which allocates an object of n words (none when n = 0) and writes it and
\* the root pointer.
RootOp(op, n) ==
    /\ bSt = "ok"
    /\ UNCHANGED notB
    /\ Len(allocLog) + 2 <= MaxAllocs
    /\ op = "get_root_internal" => n = 0
    /\ LET r == GetRootInternal
           log1 == IF r.allocated > 0
                   THEN Append(allocLog, [seg |-> 0, off |-> r.off,
                                          n |-> r.allocated, what |-> "root"])
                   ELSE allocLog
       IN  /\ UNCHANGED <<bKind, bStrategy, scratchWasZero>>
           /\ IF r.status = "panic"
              THEN /\ bSt' = "panicked"
                   /\ seg0Size' = r.size0
                   /\ allocLog' = log1
                   /\ bRes' = [op |-> op, status |-> "panic", seg |-> 0,
                               off |-> r.off, allocated |-> r.allocated,
                               fresh |-> allocLog = <<>>]
                   /\ UNCHANGED <<seg0Mem, moreSegs>>
              ELSE LET a == ArenaAllocate(r.size0, moreSegs, n)
                       written == IF n > 0 /\ a.seg = 0
                                  THEN WriteWords(seg0Mem, a.off, n) ELSE seg0Mem
                   IN  /\ bSt' = "ok"
                       /\ seg0Size' = IF n > 0 THEN a.size0 ELSE r.size0
                       /\ moreSegs' = IF n > 0 THEN a.segs ELSE moreSegs
                       /\ seg0Mem' = IF n > 0 THEN WriteWords(written, r.off, 1)
                                     ELSE seg0Mem
                       /\ allocLog' = IF n > 0
                                      THEN Append(log1, [seg |-> a.seg, off |-> a.off,
                                                         n |-> n, what |-> "object"])
                                      ELSE log1
                       /\ bRes' = [op |-> op, status |-> "ok", seg |-> 0,
                                   off |-> r.off, allocated |-> r.allocated,
                                   fresh |-> allocLog = <<>>]

\* get_segments_for_output: segments[0] is the part of segment 0 in use.
Segment0ForOutput == SubSeq(seg0Mem, 1, seg0Size)

ZeroedLenShort(segment0) == IF Len(segment0) = 0 THEN 0 ELSE Len(segment0) - 1

\* std::ptr::zero_memory(ptr, segments[0].len()): the number of words zeroed.
ZeroedLen(segment0) == Len(segment0)

\* Drop for ScratchSpaceMallocMessageBuilder (the scratch region is zeroed
\* from its start) and for MallocMessageBuilder (nothing).  A builder that
\* panicked is dropped too.
BuilderDrop ==
    /\ bSt \in {"ok", "panicked"}
    /\ UNCHANGED notB
    /\ bSt' = "dropped"
    /\ seg0Mem' = IF bKind = "scratch"
                  THEN LET z == ZeroedLen(Segment0ForOutput)
                       IN  [i \in 1..Len(seg0Mem) |-> IF i <= z THEN 0 ELSE seg0Mem[i]]
                  ELSE seg0Mem
    /\ bRes' = [op |-> "drop", status |-> "ok", seg |-> 0, off |-> 0,
                allocated |-> 0, fresh |-> allocLog = <<>>]
    /\ UNCHANGED <<bKind, bStrategy, seg0Size, moreSegs, allocLog, scratchWasZero>>

\* MallocMessageBuilder::new(options): segment 0 is first_segment_words
\* zeroed words.  ScratchSpaceMallocMessageBuilder::new(scratch_space,
\* options): segment 0 is the caller's region, whatever it holds.
InitBuilder ==
    /\ bKind \in {"malloc", "scratch"}
    /\ bStrategy \in {"FixedSize", "GrowHeuristically"}
    /\ \E n \in 0..MaxSegWords, v \in {0, 1} :
         /\ seg0Mem = Fill(n, v)
         /\ bKind = "malloc" => v = 0
         /\ scratchWasZero = (v = 0 \/ n = 0)
    /\ seg0Size = 0
    /\ moreSegs = <<>>
    /\ bSt = "ok"
    /\ bRes = [op |-> "none", status |-> "none", seg |-> 0, off |-> 0,
               allocated |-> 0, fresh |-> TRUE]
    /\ allocLog = <<>>

NextBuilder ==
    \/ \E op \in {"get_root_internal", "init_root", "get_root", "set_root"},
          n \in 0..MaxObjWords : RootOp(op, n)
    \/ BuilderDrop

\* --------------------------------------------------------- primitive_list
\* private::layout is not part of the sources: PrimitiveElement's codec reads
\* and writes the element slot at the index it is given, through a raw
\* pointer, as the specification's "element-size-specific codec".

Values == 0..MaxValue

\* PrimitiveElement::get / get_from_builder: the element decoded at index.
Decode(index) == plMem[index + 1]

\* PrimitiveElement::set: the memory after encoding value at index.
Encode(index, value) == [plMem EXCEPT ![index + 1] = value]

PlResult(op, index, status, codec, value) ==
    [op |-> op, index |-> index, len |-> plLen, status |-> status,
     codec |-> codec, value |-> value, mem |-> plMem]

ReaderGetInBoundsInclusive(index) == index <= plLen

\* assert!(index < self.len())  (Reader::get)
ReaderGetInBounds(index) == index < plLen

\* assert!(index < self.len())  (Builder::get)
BuilderGetInBounds(index) == index < plLen

\* Reader::get(index)
ReaderGet(index) ==
    /\ plSt = "ok"
    /\ UNCHANGED notPl
    /\ UNCHANGED <<plLen, plMem>>
    /\ IF ReaderGetInBounds(index)
       THEN /\ plRes' = PlResult("Reader::get", index, "ok", TRUE, Decode(index))
            /\ plSt' = "ok"
       ELSE /\ plRes' = PlResult("Reader::get", index, "panic", FALSE, 0)
            /\ plSt' = "panicked"

\* Builder::get(index)
BuilderGet(index) ==
    /\ plSt = "ok"
    /\ UNCHANGED notPl
    /\ UNCHANGED <<plLen, plMem>>
    /\ IF BuilderGetInBounds(index)
       THEN /\ plRes' = PlResult("Builder::get", index, "ok", TRUE, Decode(index))
            /\ plSt' = "ok"
       ELSE /\ plRes' = PlResult("Builder::get", index, "panic", FALSE, 0)
            /\ plSt' = "panicked"

\* Builder::set(index, value): the codec is called with the index as given.
\* Past the list's end the raw write lands in the memory after the list, or
\* faults.
BuilderSet(index, value) ==
    /\ plSt = "ok"
    /\ UNCHANGED notPl
    /\ UNCHANGED plLen
    /\ \/ /\ plMem' = Encode(index, value)
          /\ plRes' = PlResult("Builder::set", index, "ok", TRUE, value)
          /\ plSt' = "ok"
       \/ /\ index >= plLen
          /\ plMem' = plMem
          /\ plRes' = PlResult("Builder::set", index, "fault", TRUE, value)
          /\ plSt' = "faulted"

\* A view over a list of any length (0 over an absent pointer) and the memory
\* that holds it.
InitList ==
    /\ plLen \in 0..MaxListLen
    /\ plMem \in [1..MaxListLen + 1 -> Values]
    /\ plSt = "ok"
    /\ plRes = [op |-> "none", index |-> 0, len |-> plLen, status |-> "none",
                codec |-> FALSE, value |-> 0, mem |-> plMem]

NextList ==
    \/ \E index \in 0..MaxListLen : ReaderGet(index)
    \/ \E index \in 0..MaxListLen : BuilderGet(index)
    \/ \E index \in 0..MaxListLen, value \in Values : BuilderSet(index, value)

\* ---------------------------------------------------------------- options

\* pub const DEFAULT_READER_OPTIONS
DEFAULT_READER_OPTIONS ==
    [traversal_limit_in_words |-> 8 * 1024 * 1024, nesting_limit |-> 64,
     fail_fast |-> TRUE]

\* pub const SUGGESTED_FIRST_SEGMENT_WORDS
SUGGESTED_FIRST_SEGMENT_WORDS == 1024

\* ReaderOptions::new()
ReaderOptionsNew == DEFAULT_READER_OPTIONS

\* BuilderOptions::new()
BuilderOptionsNew ==
    [first_segment_words |-> SUGGESTED_FIRST_SEGMENT_WORDS,
     allocation_strategy |-> "GrowHeuristically", fail_fast |-> TRUE]

SetNestingLimitInTraversalLimit(opts, value) ==
    [opts EXCEPT !.traversal_limit_in_words = value]

\* self.nesting_limit = value
SetNestingLimit(opts, value) == [opts EXCEPT !.nesting_limit = value]

\* self.traversal_limit_in_words = value
SetTraversalLimitInWords(opts, value) ==
    [opts EXCEPT !.traversal_limit_in_words = value]

\* self.fail_fast = value
SetFailFast(opts, value) == [opts EXCEPT !.fail_fast = value]

\* self.first_segment_words = value
SetFirstSegmentWords(opts, value) == [opts EXCEPT !.first_segment_words = value]

\* self.allocation_strategy = value
SetAllocationStrategy(opts, value) == [opts EXCEPT !.allocation_strategy = value]

\* The values given to the setters: u64, i32 and u32 values near zero and
\* the defaults.
U64Values == 0..MaxOptValue \cup {DEFAULT_READER_OPTIONS.traversal_limit_in_words}
I32Values == (-MaxOptValue)..MaxOptValue \cup {DEFAULT_READER_OPTIONS.nesting_limit}
U32Values == 0..MaxOptValue \cup {SUGGESTED_FIRST_SEGMENT_WORDS}
AllocationStrategy == {"FixedSize", "GrowHeuristically"}

Called(setter, value) == [optLast EXCEPT ![setter] = <<value>>]

\* ReaderOptions::nesting_limit(value)
ReaderNestingLimit(value) ==
    /\ ropt' = SetNestingLimit(ropt, value)
    /\ optLast' = Called("ReaderOptions::nesting_limit", value)
    /\ UNCHANGED bopt
    /\ UNCHANGED notOpt

\* ReaderOptions::traversal_limit_in_words(value)
ReaderTraversalLimitInWords(value) ==
    /\ ropt' = SetTraversalLimitInWords(ropt, value)
    /\ optLast' = Called("ReaderOptions::traversal_limit_in_words", value)
    /\ UNCHANGED bopt
    /\ UNCHANGED notOpt

\* ReaderOptions::fail_fast(value)
ReaderFailFast(value) ==
    /\ ropt' = SetFailFast(ropt, value)
    /\ optLast' = Called("ReaderOptions::fail_fast", value)
    /\ UNCHANGED bopt
    /\ UNCHANGED notOpt

\* BuilderOptions::first_segment_words(value)
BuilderFirstSegmentWords(value) ==
    /\ bopt' = SetFirstSegmentWords(bopt, value)
    /\ optLast' = Called("BuilderOptions::first_segment_words", value)
    /\ UNCHANGED ropt
    /\ UNCHANGED notOpt

\* BuilderOptions::allocation_strategy(value)
BuilderAllocationStrategy(value) ==
    /\ bopt' = SetAllocationStrategy(bopt, value)
    /\ optLast' = Called("BuilderOptions::allocation_strategy", value)
    /\ UNCHANGED ropt
    /\ UNCHANGED notOpt

\* BuilderOptions::fail_fast(value)
BuilderFailFast(value) ==
    /\ bopt' = SetFailFast(bopt, value)
    /\ optLast' = Called("BuilderOptions::fail_fast", value)
    /\ UNCHANGED ropt
    /\ UNCHANGED notOpt

Setters ==
    {"ReaderOptions::nesting_limit", "ReaderOptions::traversal_limit_in_words",
     "ReaderOptions::fail_fast", "BuilderOptions::first_segment_words",
     "BuilderOptions::allocation_strategy", "BuilderOptions::fail_fast"}

\* ReaderOptions::new() and BuilderOptions::new(); no setter called yet.
InitOptions ==
    /\ ropt = ReaderOptionsNew
    /\ bopt = BuilderOptionsNew
    /\ optLast = [setter \in Setters |-> <<>>]

NextOptions ==
    \/ \E value \in I32Values : ReaderNestingLimit(value)
    \/ \E value \in U64Values : ReaderTraversalLimitInWords(value)
    \/ \E value \in BOOLEAN : ReaderFailFast(value)
    \/ \E value \in U32Values : BuilderFirstSegmentWords(value)
    \/ \E value \in AllocationStrategy : BuilderAllocationStrategy(value)
    \/ \E value \in BOOLEAN : BuilderFailFast(value)

\* ---------------------------------------------------------- specifications

\* A sub-system that a specification does not use stays as constructed.
InUnused == InitIn /\ Len(src) = 0 /\ srcKind = "array"
OutUnused == InitOut /\ sinkFails = 0
ArrUnused == InitArr /\ Len(arr) = 0
BUnused == InitBuilder /\ bKind = "malloc" /\ bStrategy = "FixedSize"
                       /\ Len(seg0Mem) = 0
PlUnused == InitList /\ plLen = 0 /\ plMem = Fill(MaxListLen + 1, 0)
OptUnused == InitOptions

\* BufferedInputStreamWrapper over a source.
InitSpecIn == InitIn /\ OutUnused /\ ArrUnused /\ BUnused /\ PlUnused /\ OptUnused
SpecIn == InitSpecIn /\ [][NextIn]_vars

\* read_at_least's loop has no blocking point other than the source's read,
\* which returns: the next iteration is always taken.
FairSpecIn == InitSpecIn /\ [][NextIn]_vars /\ WF_vars(RalStep)

\* read_at_least and ArrayInputStream on the source itself.
SpecSrc == InitSpecIn /\ [][NextSrc]_vars

\* BufferedOutputStreamWrapper over a sink that may fail.
InitSpecOut == InUnused /\ InitOut /\ ArrUnused /\ BUnused /\ PlUnused /\ OptUnused
SpecOut == InitSpecOut /\ [][NextOut]_vars

\* BufferedOutputStreamWrapper over a sink that never fails.
InitSpecOutReliable == InUnused /\ OutUnused /\ ArrUnused /\ BUnused /\ PlUnused /\ OptUnused
SpecOutReliable == InitSpecOutReliable /\ [][NextOut]_vars

\* ArrayOutputStream.
InitSpecArr == InUnused /\ OutUnused /\ InitArr /\ BUnused /\ PlUnused /\ OptUnused
SpecArr == InitSpecArr /\ [][NextArr]_vars

\* The message builders.
InitSpecBuilder == InUnused /\ OutUnused /\ ArrUnused /\ InitBuilder /\ PlUnused /\ OptUnused
SpecBuilder == InitSpecBuilder /\ [][NextBuilder]_vars

\* The primitive list views.
InitSpecList == InUnused /\ OutUnused /\ ArrUnused /\ BUnused /\ InitList /\ OptUnused
SpecList == InitSpecList /\ [][NextList]_vars

\* The options.
InitSpecOptions == InUnused /\ OutUnused /\ ArrUnused /\ BUnused /\ PlUnused
                   /\ InitOptions
SpecOptions == InitSpecOptions /\ [][NextOptions]_vars

\* ------------------------------------------------------------------ claims

\* C1 (chunking invariance).  As long as every call so far has succeeded, a
\* successful read(k) of the BufferedInputStreamWrapper returns exactly the k
\* source bytes that follow the bytes already delivered or skipped, however
\* the source split its data and whichever path the read took.
C1_ChunkingInvariance ==
    (res.op = "read" /\ res.status = "ok" /\ ~failed)
        => /\ Len(res.data) = res.k
           /\ res.data = Slice(src, res.off, res.off + res.k)

\* A read that spans the buffered bytes and a refill, after a skip, with no
\* failure before it.
C1_Witness ==
    /\ res.op = "read" /\ res.status = "ok" /\ ~failed
    /\ res.path = "refill" /\ res.avail > 0 /\ skipped > 0 /\ delivered > res.k

\* C2 (read fills or fails).  A read that returns Ok returns the length of its
\* destination and has written every byte of it.
C2_ReadFillsOrFails ==
    (res.op = "read" /\ res.status = "ok")
        => /\ res.count = res.k
           /\ Len(res.data) = res.k
           /\ \A i \in 1..Len(res.data) : res.data[i] # Uninit

\* A successful read through the bypass path that began with buffered bytes.
C2_Witness ==
    /\ res.op = "read" /\ res.status = "ok"
    /\ res.path = "bypass" /\ res.avail > 0

\* C3 (input cursor invariant).  0 <= pos <= cap <= capacity in every state.
C3_InputCursorInvariant ==
    /\ 0 <= inPos
    /\ inPos <= inCap
    /\ inCap <= BufLen

\* A full buffer with a cursor inside it, right after a read that failed in
\* its refill.
C3_Witness ==
    /\ pc = "idle" /\ res.op = "read" /\ res.status = "err"
    /\ inCap = BufLen /\ 0 < inPos /\ inPos < inCap

\* C4 (output cursor invariant).  0 <= pos <= capacity in every state of the
\* BufferedOutputStreamWrapper.
C4_OutputCursorInvariant ==
    /\ 0 <= outPos
    /\ outPos <= BufLen

\* The pending bytes: buf[0..pos), as far as the buffer reaches.
Pending == Slice(outBuf, 0, Min(outPos, BufLen))

\* C5 (output order preservation).  The bytes the sink has received followed
\* by the pending bytes are the bytes of all calls that returned Ok, in call
\* order; and after a flush that returned Ok nothing is pending and the sink
\* has received them all.
C5_OutputOrderPreserved ==
    /\ sink \o Pending = accepted
    /\ (outRes.op = "flush" /\ outRes.status = "ok")
          => (outPos = 0 /\ sink = accepted)

\* C6 (read_at_least).  read_at_least returns Ok(n) only with
\* min_bytes <= n <= len(buf) and buf[0..n) the n bytes taken from the source;
\* when the source reports end-of-data while fewer than min_bytes bytes are
\* accumulated, the call returns that error.
C6_ReadAtLeast ==
    /\ [](res.op = "ral" /\ res.status = "ok"
            => /\ res.k <= res.count
               /\ res.count <= Len(res.data)
               /\ Slice(res.data, 0, res.count)
                    = Slice(src, res.off, res.off + res.count))
    /\ [][(/\ pc = "ral" /\ call.op = "ral"
           /\ ral.pos < ral.min
           /\ \E r \in SourceRead(ral.len - ral.pos) : ~r.ok)
            => (pc' = "idle" /\ res'.op = "ral" /\ res'.status = "err")]_vars

\* read_at_least returned after more than one read of the source, with more
\* than the minimum.
C6_Witness ==
    /\ res.op = "ral" /\ res.status = "ok"
    /\ res.k > 1 /\ res.count > res.k /\ res.count < Len(res.data)
    /\ srcKind = "stream"

\* C7 (run to completion).  Every read_at_least that is entered returns.
C7_RunToCompletion == (pc = "ral") ~> (pc # "ral")

\* C8 (array read past the end).  An ArrayInputStream read whose destination
\* is longer than the remaining slice does not return Ok.
C8_ArrayReadPastEndFails ==
    (res.op = "aread" /\ res.k > res.avail) => res.status # "ok"

\* C9 as stated (large skip always fails).  A skip of more than one buffer's
\* capacity never returns Ok.
C9_LargeSkipAlwaysFails ==
    (res.op = "skip" /\ res.k > BufLen) => res.status # "ok"

\* C9 as amended.  skip(k) panics exactly when k exceeds the buffered amount
\* by more than one buffer's capacity; such a request never reaches the
\* source; and a skip that returns Ok has advanced the stream by exactly k.
C9_LargeExcessSkipFails ==
    /\ res.op = "skip" => (res.status = "panic" <=> res.k - res.avail > BufLen)
    /\ call.op = "skip" => call.nb <= BufLen
    /\ (pc = "idle" /\ res.op = "skip" /\ res.status = "ok")
          => LogicalPos = res.lpos + res.k

\* A skip of more than one buffer's capacity that succeeded.
C9_Witness ==
    /\ pc = "idle" /\ res.op = "skip" /\ res.status = "ok"
    /\ res.k > BufLen

\* C10 (array output boundary).  On an ArrayOutputStream whose fill_pos is
\* within the array, write_all of exactly the remaining capacity returns Ok
\* and leaves fill_pos = array length; write_all of one byte more panics and
\* leaves fill_pos and the array as they were.
C10_ArrayOutputBoundary ==
    (arrRes.op = "write_all" /\ arrRes.fill <= Len(arr))
        => /\ arrRes.size = Len(arr) - arrRes.fill
                => (arrRes.status = "ok" /\ arrFillPos = Len(arr))
           /\ arrRes.size = Len(arr) - arrRes.fill + 1
                => /\ arrRes.status = "panic"
                   /\ arrFillPos = arrRes.fill
                   /\ arr = arrRes.arr

\* A write of one byte more than what is left, after earlier writes.
C10_Witness ==
    /\ arrRes.op = "write_all" /\ arrRes.status = "panic"
    /\ 0 < arrRes.fill /\ arrRes.fill < Len(arr)
    /\ arrRes.size = Len(arr) - arrRes.fill + 1
    /\ \A i \in 1..arrRes.fill : arr[i] = i

\* C11 (array overflow is fatal on every write path).  A write_all or
\* write_ptr of the ArrayOutputStream whose size exceeds the remaining
\* capacity panics, so fill_pos <= array length in every state.
C11_ArrayOverflowAlwaysFatal ==
    /\ arrFillPos <= Len(arr)
    /\ (arrRes.op \in {"write_all", "write_ptr"}
          /\ arrRes.size > Len(arr) - arrRes.fill)
          => arrRes.status = "panic"

RootOps == {"get_root_internal", "init_root", "get_root", "set_root"}

\* The root pointer is allocated at most once, as the arena's first
\* allocation: one word at offset 0 of segment 0.
RootAllocatedOnceFirst ==
    \A i \in 1..Len(allocLog) :
        allocLog[i].what = "root"
            => i = 1 /\ allocLog[i] = [seg |-> 0, off |-> 0,
                                       n |-> WordsPerPointer, what |-> "root"]

\* A root operation that returned resolved to word 0 of segment 0, and
\* allocated the root pointer exactly when it was the first.
RootResolvesToWordZero ==
    (bRes.op \in RootOps /\ bRes.status = "ok")
        => /\ bRes.seg = 0 /\ bRes.off = 0
           /\ bRes.allocated = (IF bRes.fresh THEN WordsPerPointer ELSE 0)
           /\ allocLog # <<>> /\ allocLog[1].what = "root"

\* C12 as stated (builder root allocation).  On a fresh builder the first
\* root operation allocates exactly one word at offset 0 of segment 0 as the
\* arena's first allocation; every later one allocates no root pointer and
\* resolves to that word.
C12_RootAllocatedOnFirstCall ==
    /\ RootAllocatedOnceFirst
    /\ RootResolvesToWordZero
    /\ (bRes.op \in RootOps /\ bRes.fresh) => bRes.status = "ok"

\* C12 amended: the first root operation allocates the root pointer when
\* segment 0 has room for one word; on a builder whose segment 0 has none it
\* panics and the arena has allocated nothing.  Later calls are as stated.
C12_RootAllocatedWhenRoom ==
    /\ RootAllocatedOnceFirst
    /\ RootResolvesToWordZero
    /\ (bRes.op \in RootOps /\ bRes.fresh)
          => IF Len(seg0Mem) >= WordsPerPointer
             THEN bRes.status = "ok"
             ELSE bRes.status = "panic" /\ allocLog = <<>> /\ seg0Size = 0
    /\ (bRes.op \in RootOps /\ ~bRes.fresh) => bRes.status = "ok"

\* A later get_root, after the root pointer and two objects were allocated.
C12_Witness ==
    /\ bRes.op = "get_root" /\ bRes.status = "ok" /\ ~bRes.fresh
    /\ Len(allocLog) >= 3
    /\ bRes.off = 0 /\ bRes.allocated = 0

\* C13 (scratch-backed builder cleanup).  After a
\* ScratchSpaceMallocMessageBuilder is dropped, every word of the scratch
\* region that segment 0 used is zero, and a region that was all zero at
\* construction is all zero again.
C13_ScratchZeroedOnDrop ==
    (bKind = "scratch" /\ bSt = "dropped")
        => /\ \A i \in 1..seg0Size : seg0Mem[i] = 0
           /\ scratchWasZero => \A i \in 1..Len(seg0Mem) : seg0Mem[i] = 0

\* A dropped scratch builder whose segment 0 was written in full.
C13_Witness ==
    /\ bKind = "scratch" /\ bSt = "dropped" /\ scratchWasZero
    /\ seg0Size = MaxSegWords /\ Len(seg0Mem) = MaxSegWords
    /\ Len(allocLog) >= 2

\* C14 (primitive list reads are bounds-checked).  Reader::get and
\* Builder::get with index >= len() panic before the codec decodes anything,
\* so a view of length 0 rejects every get; a get within the list returns
\* the element at the index.
C14_GetBoundsChecked ==
    plRes.op \in {"Reader::get", "Builder::get"}
        => IF plRes.index >= plRes.len
           THEN plRes.status = "panic" /\ ~plRes.codec
           ELSE plRes.status = "ok" /\ plRes.value = plRes.mem[plRes.index + 1]

\* A get of element 0 on a view of length 0, rejected.
C14_Witness ==
    /\ plRes.op = "Reader::get" /\ plRes.len = 0 /\ plRes.index = 0
    /\ plRes.status = "panic" /\ plSt = "panicked"

\* C15 (primitive list writes are bounds-checked).  Builder::set with
\* index >= len() panics without calling the codec and without writing any
\* element.
C15_SetBoundsChecked ==
    (plRes.op = "Builder::set" /\ plRes.index >= plRes.len)
        => /\ plRes.status = "panic"
           /\ ~plRes.codec
           /\ plMem = plRes.mem

\* The value a field holds after the calls so far: that of the most recent
\* call of its setter, or its default.
LastOr(setter, default) ==
    IF optLast[setter] = <<>> THEN default ELSE optLast[setter][1]

\* C16 (configuration values).  ReaderOptions::new() is {8388608, 64, true}
\* and BuilderOptions::new() is {1024, GrowHeuristically, true}; after any
\* sequence of setter calls each field equals the value of the most recent
\* call of its setter, or its default when that setter was never called.
C16_OptionsDefaultsAndSetters ==
    /\ ropt = [traversal_limit_in_words |->
                   LastOr("ReaderOptions::traversal_limit_in_words", 8388608),
               nesting_limit |-> LastOr("ReaderOptions::nesting_limit", 64),
               fail_fast |-> LastOr("ReaderOptions::fail_fast", TRUE)]
    /\ bopt = [first_segment_words |->
                   LastOr("BuilderOptions::first_segment_words", 1024),
               allocation_strategy |->
                   LastOr("BuilderOptions::allocation_strategy", "GrowHeuristically"),
               fail_fast |-> LastOr("BuilderOptions::fail_fast", TRUE)]

\* Some setters called with values other than the defaults, the others
\* never called.
C16_Witness ==
    /\ optLast["ReaderOptions::nesting_limit"] = <<0>>
    /\ optLast["BuilderOptions::allocation_strategy"] = <<"FixedSize">>
    /\ optLast["ReaderOptions::traversal_limit_in_words"] = <<>>
    /\ optLast["BuilderOptions::first_segment_words"] = <<>>
    /\ ropt.traversal_limit_in_words = 8388608 /\ ropt.nesting_limit = 0
    /\ bopt.first_segment_words = 1024 /\ bopt.allocation_strategy = "FixedSize"

\* C17 (large-write bypass ordering).  A write_all of the wrapper with more
\* bytes than the buffer's capacity returns Ok after the sink has received
\* the pending bytes buf[0..pos) and then the whole payload; pos = 0
\* afterwards and no byte of the payload is in the internal buffer.
C17_LargeWriteBypass ==
    (outRes.op = "write_all" /\ outRes.size > BufLen)
        => /\ outRes.status = "ok"
           /\ outPos = 0
           /\ sink = (outRes.sink \o Slice(outBuf, 0, outRes.pos))
                        \o NewBytes(outNext - outRes.size, outRes.size)
           /\ \A i \in 1..BufLen :
                 outBuf[i] \notin (outNext - outRes.size + 1)..outNext

\* C18 (borrow/commit equivalence).  write_ptr with the lent address and a
\* size within the free space advances pos by the size without a sink call,
\* and leaves the buffer, pos and the sink as write_all of the same bytes
\* from the same state does; write_ptr with another address has an outcome
\* of write_all of the bytes at that address.
C18_BorrowCommitEquivalence ==
    [][\A size \in 0..MaxWrite :
         /\ (WritePtr("lent", size) /\ size <= WriteAvailable)
               => /\ outPos' = outPos + size
                  /\ sink' = sink
                  /\ \E o \in WriteAllOutcomes(NewBytes(outNext, size)) :
                        /\ o.status = "ok"
                        /\ outBuf' = o.buf /\ outPos' = o.pos /\ sink' = o.sink
         /\ WritePtr("ext", size)
               => \E o \in WriteAllOutcomes(NewBytes(outNext, size)) :
                     /\ outRes'.status = o.status
                     /\ outBuf' = o.buf /\ outPos' = o.pos /\ sink' = o.sink]_vars

\* A commit of exactly the free space, behind bytes that are pending.
C18_Witness ==
    /\ outRes.op = "write_ptr" /\ outRes.ptr = "lent" /\ outRes.status = "ok"
    /\ outRes.pos > 0 /\ outRes.size > 0
    /\ outRes.size = BufLen - outRes.pos
    /\ outPos = BufLen /\ sink = outRes.sink

\* C19 (get_read_buffer does not consume).  A get_read_buffer that returns Ok
\* returns a non-empty window that is the unread bytes buf[pos..cap); it has
\* read the source only when the buffer was empty, it has delivered and
\* skipped nothing, and the read that follows returns the bytes of the
\* window first.
C19_GetReadBufferKeepsData ==
    /\ [](pc = "idle" /\ res.op = "grb" /\ res.status = "ok"
            => /\ res.data = Slice(inBuf, inPos, inCap)
               /\ Len(res.data) >= 1
               /\ res.count = Len(res.data)
               /\ res.path = "refill" => res.avail = 0
               /\ res.path = "buffer" => srcPos = res.lpos + res.avail
               /\ Consumed = res.off
               /\ LogicalPos = res.lpos)
    /\ [][(res.op = "grb" /\ res.status = "ok"
             /\ res'.op = "read" /\ res'.status = "ok")
            => \A i \in 1..Min(res'.count, Len(res.data)) :
                  res'.data[i] = res.data[i]]_vars

\* A window lent after earlier reads emptied the buffer: get_read_buffer
\* refilled it and returned the new bytes, none of them consumed.
C19_Witness ==
    /\ pc = "idle" /\ res.op = "grb" /\ res.status = "ok" /\ res.path = "refill"
    /\ Len(res.data) >= 2 /\ delivered > 0
    /\ ~failed /\ res.data = Slice(src, Consumed, Consumed + Len(res.data))

\* C20 (byte conservation).  While every operation so far has succeeded, the
\* number of bytes taken from the source is the number delivered by read plus
\* the number skipped plus the unread amount cap - pos, and buf[pos..cap)
\* holds the source bytes that follow the last delivered or skipped byte.
C20_ByteConservation ==
    (pc = "idle" /\ ~failed)
        => /\ srcPos = delivered + skipped + (inCap - inPos)
           /\ Slice(inBuf, inPos, inCap)
                = Slice(src, Consumed, Consumed + (inCap - inPos))

\* Bytes delivered, bytes skipped and bytes still unread after a refill, with
\* more in the source.
C20_Witness ==
    /\ pc = "idle" /\ ~failed
    /\ delivered > 0 /\ skipped > 0 /\ inCap - inPos > 0 /\ inPos > 0
    /\ srcPos < Len(src)
    /\ res.status = "ok" /\ res.path = "refill"

\* C21 (a failed refill keeps the unread window).  After a read or skip of
\* the BufferedInputStreamWrapper has returned Err, pos and cap are what they
\* were before the call and buf[pos..cap) holds the bytes it held before the
\* call; a later read served from the window returns the source bytes that
\* follow the bytes delivered or skipped.
C21_FailedCallKeepsWindow ==
    /\ (pc = "idle" /\ res.op \in {"read", "skip"} /\ res.status = "err")
          => /\ inPos = before.pos
             /\ inCap = before.cap
             /\ Slice(inBuf, inPos, inCap)
                  = Slice(before.buf, before.pos, before.cap)
    /\ (pc = "idle" /\ failed /\ res.op = "read" /\ res.status = "ok"
          /\ res.path = "buffer")
          => res.data = Slice(src, res.off, res.off + res.k)

====
